---- MODULE Spec2Model ----
(***************************************************************************)
(* Model of the crawlytics log-ingestion backend: the SQLite connection    *)
(* manager (database/db.py), the log_files / access_logs storage           *)
(* operations (database/writer.py, database/__init__.py), and the          *)
(* background job process_log_file (processor/log_task.py) with the        *)
(* LogProcessor it drives (parser/processor.py, parser/log_parsers.py).    *)
(*                                                                         *)
(* All routes are `async def` and none of the handlers modelled here       *)
(* awaits anything but another handler of this list, so every handler runs *)
(* to completion on the event-loop thread: one program counter `pc`, and   *)
(* one SQLite connection (Database.connection_cache keyed by thread id).   *)
(***************************************************************************)
EXTENDS Integers, Sequences, FiniteSets, TLC

VARIABLES
    log_files,        \* committed table log_files: sequence of [id, in_use] in rowid order
    access_logs,      \* committed table access_logs: sequence of [fid, row]
    in_transaction,   \* the thread's connection has an open transaction (BEGIN seen)
    w_log_files,      \* the open transaction's view of log_files
    w_access_logs,    \* the open transaction's view of access_logs
    pc,               \* position of the event-loop thread
    caller,           \* who the running storage operation returns to
    arg,              \* arguments of the running storage operation
    row,              \* get_active_log_file's local `row`
    exc,              \* an exception is propagating out of the current with-block
    ret,              \* value the last finished top-level call returned
    old_log_files,    \* log_files as committed when the last top-level call began
    il,               \* insert_logs frame: logs, log_file_id, batch_size, offset i
    stats,            \* LogWriter.stats
    calls,            \* number of direct insert_logs calls made so far
    job,              \* per task: "new", "queued", "running", "done"
    task,             \* task id the running process_log_file works on
    file,             \* lines of the file the running job reads
    proc,             \* LogProcessor locals: log_format, chunks, results
    processing_results, \* log_task.processing_results
    crawler_patterns, \* LLM_CRAWLER_PATTERNS as written in parser/crawler_patterns.py
    agent,            \* the user agent last classified and what the classifiers returned
    seen              \* what the running get_task handler got from get_task_status

dbvars  == <<log_files, access_logs, in_transaction, w_log_files, w_access_logs>>
ctlvars == <<pc, caller, arg, row, exc, ret, old_log_files>>
wrvars  == <<il, stats, calls>>
jobvars == <<job, task, file, proc, processing_results>>
cfgvars == <<crawler_patterns, agent>>
rdvars  == <<seen>>
vars    == <<dbvars, ctlvars, wrvars, jobvars, cfgvars, rdvars>>

-----------------------------------------------------------------------------
(* Bounds of the model *)

MaxLines == 2      \* longest file a job reads
MaxLogs  == 2      \* longest list handed to a direct insert_logs call
MaxBatch == 2      \* largest batch_size of a direct insert_logs call
MaxCalls == 2      \* direct insert_logs calls per behaviour

Tasks      == {"t1", "t2"}
LogFileIds == Tasks \cup {"f3"}

-----------------------------------------------------------------------------
(* Tables *)

NumActive(tbl) == Cardinality({i \in DOMAIN tbl : tbl[i].in_use = 1})
ActiveIds(tbl) == {tbl[i].id : i \in {j \in DOMAIN tbl : tbl[j].in_use = 1}}
HasId(tbl, id) == \E i \in DOMAIN tbl : tbl[i].id = id

\* schema.sql: log_files.log_file_id is the table's key (INSERT OR IGNORE relies on it)
LogFileIdIsKey == TRUE

\* UPDATE log_files SET in_use = 0
ResetAll_NoReset(tbl) == tbl
ResetAll(tbl) == [i \in DOMAIN tbl |-> [tbl[i] EXCEPT !.in_use = 0]]

\* INSERT OR IGNORE INTO log_files (log_file_id, file_name, in_use) VALUES (?, ?, ?)
InsertOrIgnore(tbl, id, flag) ==
    IF LogFileIdIsKey /\ HasId(tbl, id)
    THEN tbl
    ELSE Append(tbl, [id |-> id, in_use |-> flag])

\* UPDATE log_files SET in_use = 1 WHERE log_file_id = ?
SetInUse_Wrong(tbl, id) == tbl
SetInUse(tbl, id) ==
    [i \in DOMAIN tbl |-> IF tbl[i].id = id THEN [tbl[i] EXCEPT !.in_use = 1] ELSE tbl[i]]

\* DELETE FROM log_files WHERE log_file_id = ?
DeleteFile(tbl, id) == SelectSeq(tbl, LAMBDA r : r.id # id)

\* DELETE FROM access_logs WHERE log_file_id = ?
DeleteLogs(tbl, id) == SelectSeq(tbl, LAMBDA r : r.fid # id)

-----------------------------------------------------------------------------
(* DBConnection: BEGIN on entry, COMMIT or ROLLBACK on exit *)

\* conn.execute("BEGIN") raises inside an open transaction
BeginRaises == in_transaction

Begin ==
    /\ in_transaction' = TRUE
    /\ w_log_files' = log_files
    /\ w_access_logs' = access_logs
    /\ UNCHANGED <<log_files, access_logs>>

Commit ==
    /\ log_files' = w_log_files
    /\ access_logs' = w_access_logs
    /\ in_transaction' = FALSE
    /\ UNCHANGED <<w_log_files, w_access_logs>>

Rollback ==
    /\ in_transaction' = FALSE
    /\ w_log_files' = log_files
    /\ w_access_logs' = access_logs
    /\ UNCHANGED <<log_files, access_logs>>

\* DBConnection.__exit__
Exit == IF exc THEN Rollback ELSE Commit

NoRet == [op |-> "none", id |-> "none", val |-> "none"]
NoArg == [id |-> "none", active |-> FALSE, val |-> "none"]
NoRow == "none"

\* where a finished storage operation hands control back
ReturnTo(c) == CASE c = "job" -> "job_ilf_done"
                 [] c = "gal" -> "gal_exit"
                 [] OTHER     -> "idle"

-----------------------------------------------------------------------------
(* LogWriter.insert_log_file(log_file_id, file_name, set_as_active) *)

\* a direct call of the writer's method
ILF_Call ==
    /\ pc = "idle"
    /\ \E id \in LogFileIds, active \in BOOLEAN :
          arg' = [id |-> id, active |-> active, val |-> "none"]
    /\ pc' = "ilf_enter"
    /\ caller' = "api"
    /\ ret' = NoRet
    /\ old_log_files' = log_files
    /\ UNCHANGED <<dbvars, row, exc, wrvars, jobvars>>
    /\ UNCHANGED <<cfgvars, rdvars>>

\* with DBConnection(**self.db_config) as conn -- an exception of BEGIN is
\* caught by the method's except clause, which returns False
ILF_Enter ==
    /\ pc = "ilf_enter"
    /\ IF BeginRaises
       THEN /\ ret' = [op |-> "insert_log_file", id |-> arg.id, val |-> "False"]
            /\ pc' = ReturnTo(caller)
            /\ UNCHANGED dbvars
       ELSE /\ Begin
            /\ pc' = IF arg.active THEN "ilf_reset" ELSE "ilf_insert"
            /\ UNCHANGED ret
    /\ UNCHANGED <<caller, arg, row, exc, old_log_files, wrvars, jobvars>>
    /\ UNCHANGED <<cfgvars, rdvars>>

\* cursor.execute("UPDATE log_files SET in_use = 0"); the statement may raise
ILF_Reset ==
    /\ pc = "ilf_reset"
    /\ \E ok \in BOOLEAN :
          IF ok
          THEN /\ w_log_files' = ResetAll(w_log_files)
               /\ pc' = "ilf_insert"
               /\ UNCHANGED exc
          ELSE /\ exc' = TRUE
               /\ pc' = "ilf_exit"
               /\ UNCHANGED w_log_files
    /\ UNCHANGED <<log_files, access_logs, in_transaction, w_access_logs>>
    /\ UNCHANGED <<caller, arg, row, ret, old_log_files, wrvars, jobvars>>
    /\ UNCHANGED <<cfgvars, rdvars>>

\* cursor.execute("INSERT OR IGNORE INTO log_files ..."); the statement may raise
ILF_Insert ==
    /\ pc = "ilf_insert"
    /\ \E ok \in BOOLEAN :
          IF ok
          THEN /\ w_log_files' = InsertOrIgnore(w_log_files, arg.id, IF arg.active THEN 1 ELSE 0)
               /\ UNCHANGED exc
          ELSE /\ exc' = TRUE
               /\ UNCHANGED w_log_files
    /\ pc' = "ilf_exit"
    /\ UNCHANGED <<log_files, access_logs, in_transaction, w_access_logs>>
    /\ UNCHANGED <<caller, arg, row, ret, old_log_files, wrvars, jobvars>>
    /\ UNCHANGED <<cfgvars, rdvars>>

\* return True through DBConnection.__exit__ (COMMIT), or ROLLBACK and
\* return False from the except clause
ILF_Exit ==
    /\ pc = "ilf_exit"
    /\ Exit
    /\ ret' = [op |-> "insert_log_file", id |-> arg.id,
               val |-> IF exc THEN "False" ELSE "True"]
    /\ exc' = FALSE
    /\ pc' = ReturnTo(caller)
    /\ UNCHANGED <<caller, arg, row, old_log_files, wrvars, jobvars>>
    /\ UNCHANGED <<cfgvars, rdvars>>

-----------------------------------------------------------------------------
(* database.set_active_log_file(log_file_id) *)

SAL_Call ==
    /\ pc = "idle"
    /\ \E id \in LogFileIds : arg' = [id |-> id, active |-> TRUE, val |-> "none"]
    /\ pc' = "sal_enter"
    /\ caller' = "api"
    /\ ret' = NoRet
    /\ old_log_files' = log_files
    /\ UNCHANGED <<dbvars, row, exc, wrvars, jobvars>>
    /\ UNCHANGED <<cfgvars, rdvars>>

\* with DBConnection() as conn -- an exception of BEGIN is logged and re-raised
SAL_Enter ==
    /\ pc = "sal_enter"
    /\ IF BeginRaises
       THEN /\ IF caller = "gal"
               THEN exc' = TRUE /\ UNCHANGED ret
               ELSE /\ ret' = [op |-> "set_active_log_file", id |-> arg.id, val |-> "raise"]
                    /\ UNCHANGED exc
            /\ pc' = ReturnTo(caller)
            /\ UNCHANGED dbvars
       ELSE /\ Begin
            /\ pc' = "sal_check"
            /\ UNCHANGED <<ret, exc>>
    /\ UNCHANGED <<caller, arg, row, old_log_files, wrvars, jobvars>>
    /\ UNCHANGED <<cfgvars, rdvars>>

\* SELECT COUNT(*) FROM log_files WHERE log_file_id = ?
SAL_Check ==
    /\ pc = "sal_check"
    /\ IF HasId(w_log_files, arg.id)
       THEN pc' = "sal_reset" /\ UNCHANGED arg
       ELSE pc' = "sal_exit" /\ arg' = [arg EXCEPT !.val = "not_found"]
    /\ UNCHANGED <<dbvars, caller, row, exc, ret, old_log_files, wrvars, jobvars>>
    /\ UNCHANGED <<cfgvars, rdvars>>

\* cur.execute("UPDATE log_files SET in_use = 0")
SAL_Reset ==
    /\ pc = "sal_reset"
    /\ \E ok \in BOOLEAN :
          IF ok
          THEN /\ w_log_files' = ResetAll(w_log_files)
               /\ pc' = "sal_set"
               /\ UNCHANGED exc
          ELSE /\ exc' = TRUE
               /\ pc' = "sal_exit"
               /\ UNCHANGED w_log_files
    /\ UNCHANGED <<log_files, access_logs, in_transaction, w_access_logs>>
    /\ UNCHANGED <<caller, arg, row, ret, old_log_files, wrvars, jobvars>>
    /\ UNCHANGED <<cfgvars, rdvars>>

\* cur.execute("UPDATE log_files SET in_use = 1 WHERE log_file_id = ?")
SAL_Set ==
    /\ pc = "sal_set"
    /\ \E ok \in BOOLEAN :
          IF ok
          THEN /\ w_log_files' = SetInUse(w_log_files, arg.id)
               /\ arg' = [arg EXCEPT !.val = "success"]
               /\ UNCHANGED exc
          ELSE /\ exc' = TRUE
               /\ UNCHANGED <<w_log_files, arg>>
    /\ pc' = "sal_exit"
    /\ UNCHANGED <<log_files, access_logs, in_transaction, w_access_logs>>
    /\ UNCHANGED <<caller, row, ret, old_log_files, wrvars, jobvars>>
    /\ UNCHANGED <<cfgvars, rdvars>>

\* DBConnection.__exit__, then the return (or the re-raise of the except clause)
SAL_Exit ==
    /\ pc = "sal_exit"
    /\ Exit
    /\ IF caller = "gal"
       THEN UNCHANGED <<ret, exc>>
       ELSE /\ ret' = [op |-> "set_active_log_file", id |-> arg.id,
                       val |-> IF exc THEN "raise" ELSE arg.val]
            /\ exc' = FALSE
    /\ pc' = ReturnTo(caller)
    /\ UNCHANGED <<caller, arg, row, old_log_files, wrvars, jobvars>>
    /\ UNCHANGED <<cfgvars, rdvars>>

-----------------------------------------------------------------------------
(* database.delete_log_file_data(log_file_id) *)

DEL_Call ==
    /\ pc = "idle"
    /\ \E id \in LogFileIds : arg' = [id |-> id, active |-> FALSE, val |-> "none"]
    /\ pc' = "del_enter"
    /\ caller' = "api"
    /\ ret' = NoRet
    /\ old_log_files' = log_files
    /\ UNCHANGED <<dbvars, row, exc, wrvars, jobvars>>
    /\ UNCHANGED <<cfgvars, rdvars>>

DEL_Enter ==
    /\ pc = "del_enter"
    /\ IF BeginRaises
       THEN /\ ret' = [op |-> "delete_log_file_data", id |-> arg.id, val |-> "raise"]
            /\ pc' = "idle"
            /\ UNCHANGED dbvars
       ELSE /\ Begin
            /\ pc' = "del_check"
            /\ UNCHANGED ret
    /\ UNCHANGED <<caller, arg, row, exc, old_log_files, wrvars, jobvars>>
    /\ UNCHANGED <<cfgvars, rdvars>>

\* SELECT COUNT(*) FROM log_files WHERE log_file_id = ?
DEL_Check ==
    /\ pc = "del_check"
    /\ IF HasId(w_log_files, arg.id)
       THEN pc' = "del_logs" /\ UNCHANGED arg
       ELSE pc' = "del_exit" /\ arg' = [arg EXCEPT !.val = "not_found"]
    /\ UNCHANGED <<dbvars, caller, row, exc, ret, old_log_files, wrvars, jobvars>>
    /\ UNCHANGED <<cfgvars, rdvars>>

\* cur.execute("DELETE FROM access_logs WHERE log_file_id = ?")
DEL_Logs ==
    /\ pc = "del_logs"
    /\ \E ok \in BOOLEAN :
          IF ok
          THEN /\ w_access_logs' = DeleteLogs(w_access_logs, arg.id)
               /\ pc' = "del_file"
               /\ UNCHANGED exc
          ELSE /\ exc' = TRUE
               /\ pc' = "del_exit"
               /\ UNCHANGED w_access_logs
    /\ UNCHANGED <<log_files, access_logs, in_transaction, w_log_files>>
    /\ UNCHANGED <<caller, arg, row, ret, old_log_files, wrvars, jobvars>>
    /\ UNCHANGED <<cfgvars, rdvars>>

\* cur.execute("DELETE FROM log_files WHERE log_file_id = ?")
DEL_File ==
    /\ pc = "del_file"
    /\ \E ok \in BOOLEAN :
          IF ok
          THEN /\ w_log_files' = DeleteFile(w_log_files, arg.id)
               /\ arg' = [arg EXCEPT !.val = "success"]
               /\ UNCHANGED exc
          ELSE /\ exc' = TRUE
               /\ UNCHANGED <<w_log_files, arg>>
    /\ pc' = "del_exit"
    /\ UNCHANGED <<log_files, access_logs, in_transaction, w_access_logs>>
    /\ UNCHANGED <<caller, row, ret, old_log_files, wrvars, jobvars>>
    /\ UNCHANGED <<cfgvars, rdvars>>

DEL_Exit ==
    /\ pc = "del_exit"
    /\ Exit
    /\ ret' = [op |-> "delete_log_file_data", id |-> arg.id,
               val |-> IF exc THEN "raise" ELSE arg.val]
    /\ exc' = FALSE
    /\ pc' = "idle"
    /\ UNCHANGED <<caller, arg, row, old_log_files, wrvars, jobvars>>
    /\ UNCHANGED <<cfgvars, rdvars>>

-----------------------------------------------------------------------------
(* database.get_active_log_file() *)

GAL_Call ==
    /\ pc = "idle"
    /\ pc' = "gal_enter"
    /\ caller' = "api"
    /\ arg' = NoArg
    /\ row' = NoRow
    /\ ret' = NoRet
    /\ old_log_files' = log_files
    /\ UNCHANGED <<dbvars, exc, wrvars, jobvars>>
    /\ UNCHANGED <<cfgvars, rdvars>>

GAL_Enter ==
    /\ pc = "gal_enter"
    /\ IF BeginRaises
       THEN /\ ret' = [op |-> "get_active_log_file", id |-> "none", val |-> "raise"]
            /\ pc' = "idle"
            /\ UNCHANGED dbvars
       ELSE /\ Begin
            /\ pc' = "gal_select"
            /\ UNCHANGED ret
    /\ UNCHANGED <<caller, arg, row, exc, old_log_files, wrvars, jobvars>>
    /\ UNCHANGED <<cfgvars, rdvars>>

\* SELECT ... WHERE in_use = 1 LIMIT 1; when that finds nothing,
\* SELECT ... ORDER BY upload_timestamp DESC LIMIT 1 and, for a row found,
\* await set_active_log_file(log_file_id) inside the open with-block
GAL_Select ==
    /\ pc = "gal_select"
    /\ IF NumActive(w_log_files) > 0
       THEN /\ \E id \in ActiveIds(w_log_files) : row' = id
            /\ pc' = "gal_exit"
            /\ UNCHANGED <<arg, caller>>
       ELSE IF w_log_files = <<>>
       THEN /\ row' = NoRow
            /\ pc' = "gal_exit"
            /\ UNCHANGED <<arg, caller>>
       ELSE /\ row' = w_log_files[Len(w_log_files)].id
            /\ arg' = [id |-> w_log_files[Len(w_log_files)].id, active |-> TRUE, val |-> "none"]
            /\ caller' = "gal"
            /\ pc' = "sal_enter"
    /\ UNCHANGED <<dbvars, exc, ret, old_log_files, wrvars, jobvars>>
    /\ UNCHANGED <<cfgvars, rdvars>>

\* DBConnection.__exit__ of get_active_log_file, then its return or re-raise
GAL_Exit ==
    /\ pc = "gal_exit"
    /\ Exit
    /\ ret' = [op |-> "get_active_log_file", id |-> row,
               val |-> IF exc THEN "raise" ELSE IF row = NoRow THEN "None" ELSE "row"]
    /\ exc' = FALSE
    /\ caller' = "api"
    /\ pc' = "idle"
    /\ UNCHANGED <<arg, row, old_log_files, wrvars, jobvars>>
    /\ UNCHANGED <<cfgvars, rdvars>>

-----------------------------------------------------------------------------
(* LogWriter.insert_logs(logs, log_file_id, batch_size) *)

Min(a, b) == IF a < b THEN a ELSE b

NoLast  == [bulk_failed |-> FALSE, executed |-> 0, len |-> 0, tried |-> 0, txns |-> 0]
NoIl    == [logs |-> <<>>, fid |-> "none", bs |-> 1, i |-> 0, base |-> 0, last |-> NoLast]
NoStats == [rows_attempted |-> 0, rows_inserted |-> 0, errors |-> 0]

\* the rows of a list of logs, each tagged with log_file_id
Rows(fid, n) == [k \in 1..n |-> [fid |-> fid, row |-> k]]

\* The thread's connection as the writer sees it: c the committed
\* access_logs, w the open transaction's view, tx whether BEGIN was executed
TxBegin(db)    == [c |-> db.c, w |-> db.c, tx |-> TRUE]
TxCommit(db)   == [c |-> db.w, w |-> db.w, tx |-> FALSE]
TxRollback_DropsCommitted(db) == [c |-> <<>>, w |-> <<>>, tx |-> FALSE]
TxRollback(db) == [c |-> db.c, w |-> db.c, tx |-> FALSE]

\* DBConnection.__exit__: ROLLBACK or COMMIT, "no transaction is active" ignored
TxExit_CommitsOnRaise(db, raised) ==
    IF ~db.tx THEN db ELSE TxCommit(db)
TxExit(db, raised) ==
    IF ~db.tx THEN db
    ELSE IF raised THEN TxRollback(db) ELSE TxCommit(db)

\* _insert_logs_one_by_one: ONE DBConnection around the loop over the rows; a
\* row whose INSERT raises is skipped and counted nowhere; an exception of
\* BEGIN (a fault, or a transaction that is still open) leaves the function.
\* tried: rows whose INSERT was executed; txns: transactions begun
InsertOneByOne(db, batch, beginFails, rowFails) ==
    IF beginFails \/ db.tx
    THEN [raised |-> TRUE, inserted |-> 0, db |-> db, tried |-> 0, txns |-> 0]
    ELSE LET good == SelectSeq(batch, LAMBDA r : r.row \notin rowFails)
             d1   == TxBegin(db)
             d2   == [d1 EXCEPT !.w = @ \o good]
         IN  [raised |-> FALSE, inserted |-> Len(good), db |-> TxExit(d2, FALSE),
              tried |-> Len(batch), txns |-> 1]

\* _insert_batch: the bulk attempt (_insert_logs) inside one DBConnection and
\* the fallbacks.
\*   f1   BEGIN of the bulk transaction raises
\*   k    0: executemany succeeds; k > 0: it raises at the k-th row, the rows
\*        before it being inserted in the open transaction
\*   auto SQLite has rolled the transaction back itself when executemany raised
\*   f2   BEGIN of the fallback called from _insert_logs raises (it always
\*        does while the bulk transaction is still open)
\*   f3   BEGIN of the fallback called from _insert_batch's except clause raises
InsertBatch(db, batch, f1, k, auto, f2, f3, rowFails) ==
    IF f1 \/ db.tx
    THEN InsertOneByOne(db, batch, f3, rowFails)
    ELSE LET d1 == TxBegin(db)
         IN  IF k = 0
             THEN [raised |-> FALSE, inserted |-> Len(batch),
                   db |-> TxExit([d1 EXCEPT !.w = @ \o batch], FALSE),
                   tried |-> 0, txns |-> 0]
             ELSE LET d2    == [d1 EXCEPT !.w = @ \o SubSeq(batch, 1, k - 1)]
                      d3    == IF auto THEN TxRollback(d2) ELSE d2
                      inner == InsertOneByOne(d3, batch, f2, rowFails)
                  IN  IF inner.raised
                      THEN InsertOneByOne(TxExit(inner.db, TRUE), batch, f3, rowFails)
                      ELSE [inner EXCEPT !.db = TxExit(inner.db, FALSE)]

\* the combinations of faults that can differ in their effect: nothing else
\* fails when the bulk insert succeeds, and executemany is not reached when
\* BEGIN raised
FaultsMatter(f1, k, auto, f2, f3, rowFails) ==
    /\ (~f1 /\ k = 0) => (~auto /\ ~f2 /\ ~f3 /\ rowFails = {})
    /\ f1 => (k = 0 /\ ~auto /\ ~f2)
    /\ (k > 0 /\ ~auto) => ~f2

\* a direct call of the writer's method: any list, any batch size
IL_Call ==
    /\ pc = "idle"
    /\ calls < MaxCalls
    /\ calls' = calls + 1
    /\ \E n \in 0..MaxLogs, bs \in 1..MaxBatch, fid \in LogFileIds :
          /\ il' = [logs |-> Rows(fid, n), fid |-> fid, bs |-> bs, i |-> 0,
                    base |-> Len(access_logs), last |-> NoLast]
          /\ stats' = [rows_attempted |-> n, rows_inserted |-> 0, errors |-> 0]
    /\ pc' = "il_loop"
    /\ caller' = "api"
    /\ ret' = NoRet
    /\ old_log_files' = log_files
    /\ UNCHANGED <<dbvars, arg, row, exc, jobvars>>
    /\ UNCHANGED <<cfgvars, rdvars>>

\* one iteration of `for i in range(0, len(logs), batch_size)`
IL_Batch ==
    /\ pc = "il_loop"
    /\ il.i < Len(il.logs)
    /\ LET batch == SubSeq(il.logs, il.i + 1, Min(il.i + il.bs, Len(il.logs)))
           db    == [c |-> access_logs, w |-> w_access_logs, tx |-> in_transaction]
       IN  \E f1 \in BOOLEAN, k \in 0..Len(batch), auto \in BOOLEAN,
              f2 \in BOOLEAN, f3 \in BOOLEAN,
              rowFails \in SUBSET ((il.i + 1)..(il.i + Len(batch))) :
              LET out == InsertBatch(db, batch, f1, k, auto, f2, f3, rowFails)
              IN  /\ FaultsMatter(f1, k, auto, f2, f3, rowFails)
                  /\ access_logs' = out.db.c
                  /\ w_access_logs' = out.db.w
                  /\ in_transaction' = out.db.tx
                  /\ stats' = IF out.raised
                              THEN [stats EXCEPT !.errors = @ + Len(batch)]
                              ELSE [stats EXCEPT !.rows_inserted = @ + out.inserted]
                  /\ il' = [il EXCEPT !.i = @ + il.bs,
                                      !.last = [bulk_failed |-> f1 \/ k > 0,
                                                executed |-> IF k > 0 THEN k - 1 ELSE 0,
                                                len |-> Len(batch),
                                                tried |-> out.tried, txns |-> out.txns]]
    /\ UNCHANGED <<log_files, w_log_files, ctlvars, calls, jobvars>>
    /\ UNCHANGED <<cfgvars, rdvars>>

\* return self.stats
IL_Return ==
    /\ pc = "il_loop"
    /\ il.i >= Len(il.logs)
    /\ ret' = [op |-> "insert_logs", id |-> il.fid, val |-> "stats"]
    /\ pc' = IF caller = "job" THEN "job_update" ELSE "idle"
    /\ UNCHANGED <<dbvars, caller, arg, row, exc, old_log_files, wrvars, jobvars>>
    /\ UNCHANGED <<cfgvars, rdvars>>

-----------------------------------------------------------------------------
(* User agents and crawler detection (parser/crawler_detection.py,          *)
(* parser/llm_list.py)                                                      *)
(*                                                                          *)
(* A user agent is a sequence of fragments of text; matching works on the   *)
(* lower-cased sequences, a pattern being contained in a user agent when it *)
(* occurs in it as a contiguous run of fragments.  The pattern list keeps   *)
(* the features of the source's list that the matching order depends on: a  *)
(* pattern that extends an earlier one ("Omgili" before "Omgilibot", like   *)
(* "AI2Bot" before "AI2Bot-Dolma") and two patterns that differ in case     *)
(* only ("Cohere-AI", "cohere-ai").                                         *)

MaxUaLen == 3      \* longest user agent classified directly

Fragments == {"GPTBot", "Omgili", "omgili", "bot", "Cohere-AI", "cohere-ai", "Mozilla", "x"}

\* str.lower() of one fragment
LowerFragment(f) ==
    CASE f = "GPTBot"    -> "gptbot"
      [] f = "Omgili"    -> "omgili"
      [] f = "Cohere-AI" -> "cohere-ai"
      [] f = "Mozilla"   -> "mozilla"
      [] OTHER           -> f

\* user_agent.lower()
Lower(u) == [k \in DOMAIN u |-> LowerFragment(u[k])]

\* `a in b` for strings
Contains(b, a) ==
    \E k \in 0..(Len(b) - Len(a)) : SubSeq(b, k + 1, k + Len(a)) = a

\* llm_list.LLM_CRAWLER_PATTERNS, in the order of the list
LLM_CRAWLER_PATTERNS ==
    << <<"GPTBot">>, <<"Cohere-AI">>, <<"cohere-ai">>, <<"Omgili">>, <<"Omgili", "bot">> >>

\* the list the module-level functions read: `from .llm_list import
\* LLM_CRAWLER_PATTERNS`, a list no handler ever writes
WorkerPatterns_FromFile == crawler_patterns
WorkerPatterns == LLM_CRAWLER_PATTERNS

\* CrawlerDatabase._all_patterns, common_browsers and the generic terms
AllPatterns ==
    << <<"GPTBot">>, <<"Cohere-AI">>, <<"cohere-ai">>, <<"Omgili">>, <<"Omgili", "bot">> >>
CommonBrowsers == { <<"mozilla">> }
GenericTerms   == { <<"bot">> }

NoName == [kind |-> "none", name |-> <<>>]
PatternName(p) == [kind |-> "pattern", name |-> p]
\* whatever lines 214-248 return: a regex-, term- or domain-derived name, or None
FallbackName == [kind |-> "fallback", name |-> <<>>]

FirstOf(patterns, hits) ==
    IF hits = {} THEN NoName
    ELSE PatternName(patterns[CHOOSE k \in hits : \A j \in hits : k <= j])

\* the first pattern of the list equal to the user agent, ignoring case
FirstExact(patterns, ua) ==
    FirstOf(patterns, {k \in DOMAIN patterns : Lower(patterns[k]) = Lower(ua)})

\* the first pattern of the list contained in the user agent, ignoring case
FirstContained(patterns, ua) ==
    FirstOf(patterns, {k \in DOMAIN patterns : Contains(Lower(ua), Lower(patterns[k]))})

\* crawler_detection.is_llm_crawler (the filter of process_chunk): an exact
\* match or a substring match against the list, nothing else
is_llm_crawler(ua) ==
    /\ ua # <<>>
    /\ \/ \E k \in DOMAIN WorkerPatterns : Lower(WorkerPatterns[k]) = Lower(ua)
       \/ \E k \in DOMAIN WorkerPatterns : Contains(Lower(ua), Lower(WorkerPatterns[k]))

\* crawler_detection.extract_crawler_name (the one the parsers call)
extract_crawler_name_SubstringFirst(ua) ==
    IF ua = <<>> THEN NoName
    ELSE FirstContained(WorkerPatterns, ua)
extract_crawler_name(ua) ==
    IF ua = <<>> THEN NoName
    ELSE LET exact == FirstExact(WorkerPatterns, ua)
         IN  IF exact.kind = "pattern" THEN exact
             ELSE FirstContained(WorkerPatterns, ua)

\* CrawlerDatabase.is_crawler: exact, substring, then a generic term without
\* any browser token
is_crawler(ua) ==
    /\ ua # <<>>
    /\ \/ \E k \in DOMAIN AllPatterns : Lower(AllPatterns[k]) = Lower(ua)
       \/ \E k \in DOMAIN AllPatterns : Contains(Lower(ua), Lower(AllPatterns[k]))
       \/ \E term \in GenericTerms :
             /\ Contains(Lower(ua), term)
             /\ \A browser \in CommonBrowsers : ~Contains(Lower(ua), browser)

\* CrawlerDatabase.extract_crawler_name: exact, substring, then the
\* heuristics and the domain table
db_extract_crawler_name(ua) ==
    IF ua = <<>> THEN NoName
    ELSE LET exact == FirstExact(AllPatterns, ua)
             sub   == FirstContained(AllPatterns, ua)
         IN  IF exact.kind = "pattern" THEN exact
             ELSE IF sub.kind = "pattern" THEN sub
             ELSE FallbackName

RECURSIVE SeqsUpTo(_, _)
SeqsUpTo(S, n) ==
    IF n = 0 THEN {<<>>}
    ELSE LET shorter == SeqsUpTo(S, n - 1)
         IN  shorter \cup {Append(f, x) : f \in {g \in shorter : Len(g) = n - 1}, x \in S}

UserAgents == SeqsUpTo(Fragments, MaxUaLen)

NoAgent == [ua |-> <<>>, is_llm |-> FALSE, name |-> NoName,
            is_crawler |-> FALSE, db_name |-> NoName]

\* one call each of the four classifiers on a user agent, the first of a
\* behaviour
A_Classify ==
    /\ agent = NoAgent
    /\ \E ua \in UserAgents :
          agent' = [ua |-> ua, is_llm |-> is_llm_crawler(ua),
                    name |-> extract_crawler_name(ua),
                    is_crawler |-> is_crawler(ua),
                    db_name |-> db_extract_crawler_name(ua)]
    /\ UNCHANGED <<dbvars, ctlvars, wrvars, jobvars, crawler_patterns, rdvars>>

-----------------------------------------------------------------------------
(* Log lines and the line parsers (parser/log_parsers.py, parser_base.py)   *)
(*                                                                          *)
(* A line is described by what the parsers look at:                         *)
(*   shape  "bad"   no pattern matches it                                   *)
(*          "std"   combined format, nothing after the user agent           *)
(*          "atime" an integer (microseconds) after the user agent          *)
(*          "ntime" decimal seconds after the user agent                    *)
(*          "nid"   decimal seconds and a request id after the user agent   *)
(*   timeok the timestamp parses under "%d/%b/%Y:%H:%M:%S %z"               *)
(*   ua     the user agent, a sequence of fragments (see above)             *)
(*   rt     the number after the user agent: its digits before the decimal  *)
(*          point as the integer `whole`, its first three decimals as the   *)
(*          integer `milli` (0 when there is no decimal point)              *)

ResponseTime(whole, milli) == [whole |-> whole, milli |-> milli]

\* the response times of the example lines in the comments of _get_patterns:
\* "125000", "0.123", and "1.5 <request id>"
SampleResponseTime(shape) ==
    CASE shape = "atime" -> ResponseTime(125000, 0)
      [] shape = "ntime" -> ResponseTime(0, 123)
      [] shape = "nid"   -> ResponseTime(1, 500)
      [] OTHER           -> ResponseTime(0, 0)

Line(shape, timeok, ua) ==
    [shape |-> shape, timeok |-> timeok, ua |-> ua, rt |-> SampleResponseTime(shape)]

UaCrawler == <<"Mozilla", "GPTBot">>     \* "Mozilla/5.0 ... compatible; GPTBot/1.0 ..."
UaBrowser == <<"Mozilla", "x">>          \* "Mozilla/5.0 ... Chrome/..."
UaGeneric == <<"x", "bot">>              \* "examplebot/1.0": no known pattern, no browser token

\* the lines the files of the upload jobs are made of
Lines == { Line("bad", TRUE, UaBrowser),
           Line("std", TRUE, UaCrawler),
           Line("atime", TRUE, UaCrawler),
           Line("atime", TRUE, UaBrowser),
           Line("atime", FALSE, UaCrawler) }

\* further lines for direct calls of LogProcessor.process
MoreLines == { Line("std", TRUE, UaBrowser),
               Line("atime", TRUE, UaGeneric),
               Line("ntime", TRUE, UaCrawler),
               Line("nid", TRUE, <<"Omgili", "bot">>) }

Files == SeqsUpTo(Lines, MaxLines)

ParsedNone  == [kind |-> "none", line |-> Line("bad", TRUE, <<>>), crawler_name |-> NoName,
                response_time_ms |-> 0]
ParsedRaise == [kind |-> "raise", line |-> Line("bad", TRUE, <<>>), crawler_name |-> NoName,
                response_time_ms |-> 0]
Parsed(l, ms) == [kind |-> "entry", line |-> l, crawler_name |-> extract_crawler_name(l.ua),
                  response_time_ms |-> ms]

\* ApacheParser._get_patterns: the first pattern that matches (re.match
\* anchors at the start only, so \d+ also matches the leading digits of a
\* decimal number)
ApachePattern(l) ==
    CASE l.shape \in {"atime", "ntime", "nid"} -> "apache_with_time"
      [] l.shape = "std"                        -> "apache_standard"
      [] OTHER                                  -> "none"

\* NginxParser._get_patterns
NginxPattern(l) ==
    CASE l.shape = "nid"                -> "nginx_with_id"
      [] l.shape \in {"ntime", "atime"} -> "nginx_with_time"
      [] l.shape = "std"                -> "nginx_standard"
      [] OTHER                          -> "none"

\* _process_match: the text the response_time group captured, converted.
\* apache_with_time captures \d+, the digits up to a decimal point, and
\* ApacheParser computes int(int(text) / 1000); the Nginx patterns capture
\* [\d\.]+, the whole number, and NginxParser computes int(float(text) * 1000)
\* (exact for the sample values; binary floating point makes "1.001" 1000)
ResponseTimeMs(pattern, l) ==
    IF pattern = "apache_with_time" THEN l.rt.whole \div 1000
    ELSE l.rt.whole * 1000 + l.rt.milli

\* parse_line with _process_match and _parse_common_fields: None when no
\* pattern matches or the timestamp does not parse; a pattern without the
\* response_time group leaves no "response_time_ms" key, and building the
\* returned dict raises KeyError
ParseWith_KeepsBadTime(pattern, l) ==
    IF pattern = "none" THEN ParsedNone
    ELSE IF pattern \in {"apache_standard", "nginx_standard"} THEN ParsedRaise
    ELSE Parsed(l, ResponseTimeMs(pattern, l))
ParseWith(pattern, l) ==
    IF pattern = "none" THEN ParsedNone
    ELSE IF ~l.timeok THEN ParsedNone
    ELSE IF pattern \in {"apache_standard", "nginx_standard"} THEN ParsedRaise
    ELSE Parsed(l, ResponseTimeMs(pattern, l))

parse_apache_line(l) == ParseWith(ApachePattern(l), l)
parse_nginx_line(l)  == ParseWith(NginxPattern(l), l)

-----------------------------------------------------------------------------
(* parser/processor.py *)

SampleLines      == 100      \* LogProcessor.detect_format(num_lines=100)
DefaultChunkSize == 10000    \* LogProcessor.__init__(chunk_size=10000)
DefaultBatchSize == 1000     \* LogWriter.insert_logs(batch_size=1000)

\* the lines detect_format reads: at most num_lines of them
Sample(f) == SubSeq(f, 1, Min(Len(f), SampleLines))

\* detect_log_format: "apache", "nginx", "None", or "raise" when a parser raises
RECURSIVE detect_log_format_DefaultApache(_)
detect_log_format_DefaultApache(sample) ==
    IF sample = <<>> THEN "apache"
    ELSE LET a == parse_apache_line(Head(sample))
             n == parse_nginx_line(Head(sample))
         IN  IF a.kind = "raise" THEN "raise"
             ELSE IF a.kind = "entry" THEN "apache"
             ELSE IF n.kind = "raise" THEN "raise"
             ELSE IF n.kind = "entry" THEN "nginx"
             ELSE detect_log_format_DefaultApache(Tail(sample))
RECURSIVE detect_log_format(_)
detect_log_format(sample) ==
    IF sample = <<>> THEN "None"
    ELSE LET a == parse_apache_line(Head(sample))
             n == parse_nginx_line(Head(sample))
         IN  IF a.kind = "raise" THEN "raise"
             ELSE IF a.kind = "entry" THEN "apache"
             ELSE IF n.kind = "raise" THEN "raise"
             ELSE IF n.kind = "entry" THEN "nginx"
             ELSE detect_log_format(Tail(sample))

\* chunk_file: consecutive slices of chunk_size lines, the last one shorter
RECURSIVE chunk_file_DropsLast(_, _)
chunk_file_DropsLast(f, chunk_size) ==
    IF Len(f) < chunk_size THEN <<>>
    ELSE <<SubSeq(f, 1, chunk_size)>>
             \o chunk_file_DropsLast(SubSeq(f, chunk_size + 1, Len(f)), chunk_size)
RECURSIVE chunk_file(_, _)
chunk_file(f, chunk_size) ==
    IF f = <<>> THEN <<>>
    ELSE IF Len(f) <= chunk_size THEN <<f>>
    ELSE <<SubSeq(f, 1, chunk_size)>> \o chunk_file(SubSeq(f, chunk_size + 1, Len(f)), chunk_size)

\* process_chunk: the entries of the lines that parse and are crawler traffic;
\* an exception of the parser leaves the function
RECURSIVE process_chunk(_, _)
process_chunk(chunk, log_format) ==
    IF chunk = <<>> THEN [raised |-> FALSE, entries |-> <<>>]
    ELSE LET parsed == IF log_format = "apache" THEN parse_apache_line(Head(chunk))
                       ELSE parse_nginx_line(Head(chunk))
             rest   == process_chunk(Tail(chunk), log_format)
         IN  IF parsed.kind = "raise" \/ rest.raised
             THEN [raised |-> TRUE, entries |-> <<>>]
             ELSE IF parsed.kind = "entry" /\ is_llm_crawler(parsed.line.ua)
             THEN [raised |-> FALSE,
                   entries |-> <<[line |-> parsed.line, crawler_name |-> parsed.crawler_name,
                                  response_time_ms |-> parsed.response_time_ms]>>
                               \o rest.entries]
             ELSE rest

\* pool.map(process_fn, chunks) and itertools.chain.from_iterable(results)
RECURSIVE pool_map_SkipsFailed(_, _)
pool_map_SkipsFailed(chunks, log_format) ==
    IF chunks = <<>> THEN [raised |-> FALSE, entries |-> <<>>]
    ELSE LET first == process_chunk(Head(chunks), log_format)
             rest  == pool_map_SkipsFailed(Tail(chunks), log_format)
         IN  [raised |-> FALSE, entries |-> first.entries \o rest.entries]
RECURSIVE pool_map(_, _)
pool_map(chunks, log_format) ==
    IF chunks = <<>> THEN [raised |-> FALSE, entries |-> <<>>]
    ELSE LET first == process_chunk(Head(chunks), log_format)
             rest  == pool_map(Tail(chunks), log_format)
         IN  IF first.raised \/ rest.raised
             THEN [raised |-> TRUE, entries |-> <<>>]
             ELSE [raised |-> FALSE, entries |-> first.entries \o rest.entries]

RECURSIVE SumLen(_)
SumLen(chunks) == IF chunks = <<>> THEN 0 ELSE Len(Head(chunks)) + SumLen(Tail(chunks))

\* the statistics process() returns; match_percentage = llm_matches /
\* total_lines * 100 is kept as the fraction mp_num / mp_den
ProcessingStats(total_lines, llm_matches) ==
    [present |-> TRUE, total_lines |-> total_lines, llm_matches |-> llm_matches,
     mp_num |-> IF total_lines > 0 THEN llm_matches * 100 ELSE 0,
     mp_den |-> IF total_lines > 0 THEN total_lines ELSE 1]

\* "lines_per_second": total_lines / processing_time if processing_time > 0
\* else 0, kept as the fraction num / den
LinesPerSecond(total_lines, processing_time) ==
    [num |-> IF processing_time > 0 THEN total_lines ELSE 0,
     den |-> IF processing_time > 0 THEN processing_time ELSE 1]

AbsentStats == [present |-> FALSE, total_lines |-> 0, llm_matches |-> 0,
                mp_num |-> 0, mp_den |-> 1]

-----------------------------------------------------------------------------
(* processor/log_task.py: process_log_file and processing_results *)

NoProc == [log_format |-> "unset", chunk_size |-> DefaultChunkSize, chunks |-> <<>>,
           chunked |-> FALSE, workers |-> 0, used |-> <<>>, results |-> <<>>,
           processing_time |-> 0, stats |-> AbsentStats,
           lines_per_second |-> [num |-> 0, den |-> 1], outcome |-> "none",
           save_to_db |-> FALSE, removal |-> "none", finished |-> <<>>]

ValueErrorText == "Could not determine log format"
KeyErrorText   == "'response_time_ms'"

\* the record stored once parsing has finished (log_task.py:50-62)
ParsedRecord_Complete(st, n) ==
    [status |-> "complete", error |-> "", stats |-> st, matched_entries |-> n,
     records_imported |-> n, issues |-> <<>>, db_stats |-> NoStats, has_db_stats |-> FALSE]
ParsedRecord(st, n) ==
    [status |-> "processing_complete", error |-> "", stats |-> st, matched_entries |-> n,
     records_imported |-> n, issues |-> <<>>, db_stats |-> NoStats, has_db_stats |-> FALSE]

\* the record the except clause stores (log_task.py:113-122)
ErrorRecord_NoText(text) ==
    [status |-> "error", error |-> "", stats |-> AbsentStats, matched_entries |-> 0,
     records_imported |-> 0, issues |-> <<"">>, db_stats |-> NoStats, has_db_stats |-> FALSE]
ErrorRecord(text) ==
    [status |-> "error", error |-> text, stats |-> AbsentStats, matched_entries |-> 0,
     records_imported |-> 0, issues |-> <<text>>, db_stats |-> NoStats, has_db_stats |-> FALSE]

\* the record after line 71, and after lines 71-72, of the branch taken when
\* init_database() returned False
DbInitFailedStatus(rec) == [rec EXCEPT !.status = "db_init_failed"]
DbInitFailed_DropsResults(rec) ==
    [ErrorRecord("Database initialization failed") EXCEPT !.status = "db_init_failed"]
DbInitFailed(rec) ==
    [rec EXCEPT !.status = "db_init_failed",
                !.issues = Append(@, "Database initialization failed")]

\* no entry for the task in processing_results
NoRecord ==
    [status |-> "none", error |-> "", stats |-> AbsentStats, matched_entries |-> 0,
     records_imported |-> 0, issues |-> <<>>, db_stats |-> NoStats, has_db_stats |-> FALSE]

\* log_task.get_task_status
get_task_status(t) == processing_results[t]

HasIssue(rec, text) == \E k \in DOMAIN rec.issues : rec.issues[k] = text

\* routes/logs.py upload_log: background_tasks.add_task(process_log_file, ...)
J_Upload ==
    /\ \E t \in Tasks :
          /\ job[t] = "new"
          /\ job' = [job EXCEPT ![t] = "queued"]
    /\ UNCHANGED <<dbvars, ctlvars, wrvars, task, file, proc, processing_results>>
    /\ UNCHANGED <<cfgvars, rdvars>>

\* process_log_file starts: LogProcessor(file_path)
J_Begin ==
    /\ pc = "idle"
    /\ \E t \in Tasks :
          /\ job[t] = "queued"
          /\ job' = [job EXCEPT ![t] = "running"]
          /\ task' = t
    /\ \E f \in Files : file' = f
    /\ \E save_to_db \in BOOLEAN : proc' = [NoProc EXCEPT !.save_to_db = save_to_db]
    /\ pc' = "job_detect"
    /\ caller' = "job"
    /\ ret' = NoRet
    /\ old_log_files' = log_files
    /\ UNCHANGED <<dbvars, arg, row, exc, wrvars, processing_results>>
    /\ UNCHANGED <<cfgvars, rdvars>>

\* the except clause of process_log_file: the job ends with an error record
Fail(text) ==
    /\ processing_results' = [processing_results EXCEPT ![task] = ErrorRecord(text)]
    /\ job' = [job EXCEPT ![task] = "done"]
    /\ pc' = "idle"
    /\ caller' = "api"

\* LogProcessor.process: log_format = self.detect_format(); raise ValueError
\* when it is None
J_Detect ==
    /\ pc = "job_detect"
    /\ LET fmt == detect_log_format(Sample(file))
       IN  /\ proc' = [proc EXCEPT !.log_format = fmt]
           /\ CASE fmt = "None"  -> Fail(ValueErrorText)
                [] fmt = "raise" -> Fail(KeyErrorText)
                [] OTHER -> /\ pc' = "job_chunk"
                            /\ UNCHANGED <<processing_results, job, caller>>
    /\ UNCHANGED <<dbvars, arg, row, exc, ret, old_log_files, wrvars, task, file>>
    /\ UNCHANGED <<cfgvars, rdvars>>

\* chunks = chunk_file(self.file_path, self.chunk_size)
J_Chunk ==
    /\ pc = "job_chunk"
    /\ proc' = [proc EXCEPT !.chunks = chunk_file(file, proc.chunk_size), !.chunked = TRUE]
    /\ pc' = "job_map"
    /\ UNCHANGED <<dbvars, caller, arg, row, exc, ret, old_log_files, wrvars>>
    /\ UNCHANGED <<job, task, file, processing_results>>
    /\ UNCHANGED <<cfgvars, rdvars>>

\* with multiprocessing.Pool(...) as pool: results = pool.map(process_fn, chunks)
J_Map ==
    /\ pc = "job_map"
    /\ LET out == pool_map(proc.chunks, proc.log_format)
       IN  /\ proc' = [proc EXCEPT !.workers = Len(proc.chunks), !.results = out.entries]
           /\ IF out.raised
              THEN Fail(KeyErrorText)
              ELSE /\ pc' = "job_store"
                   /\ UNCHANGED <<processing_results, job, caller>>
    /\ UNCHANGED <<dbvars, arg, row, exc, ret, old_log_files, wrvars, task, file>>
    /\ UNCHANGED <<cfgvars, rdvars>>

\* process() returns (flat_results, stats); processing_results[task_id] = {...};
\* then `if save_to_db and results`
J_Store ==
    /\ pc = "job_store"
    /\ processing_results' = [processing_results EXCEPT ![task] =
           ParsedRecord(ProcessingStats(SumLen(proc.chunks), Len(proc.results)),
                        Len(proc.results))]
    /\ pc' = IF proc.save_to_db /\ proc.results # <<>> THEN "job_initdb" ELSE "job_cleanup"
    /\ UNCHANGED <<dbvars, caller, arg, row, exc, ret, old_log_files, wrvars>>
    /\ UNCHANGED <<job, task, file, proc>>
    /\ UNCHANGED <<cfgvars, rdvars>>

\* if not init_database(): processing_results[task_id]["status"] =
\* "db_init_failed" (the issue is appended by the next statement); otherwise
\* writer.insert_log_file(task_id, file_name, set_as_active=True) is called
J_InitDb ==
    /\ pc = "job_initdb"
    /\ \E ok \in BOOLEAN :
          IF ok
          THEN /\ arg' = [id |-> task, active |-> TRUE, val |-> "none"]
               /\ pc' = "ilf_enter"
               /\ UNCHANGED processing_results
          ELSE /\ processing_results' =
                      [processing_results EXCEPT ![task] = DbInitFailedStatus(@)]
               /\ pc' = "job_dbfail"
               /\ UNCHANGED arg
    /\ UNCHANGED <<dbvars, caller, row, exc, ret, old_log_files, wrvars>>
    /\ UNCHANGED <<job, task, file, proc>>
    /\ UNCHANGED <<cfgvars, rdvars>>

\* processing_results[task_id]["issues"].append("Database initialization
\* failed"); return -- the temporary file is left where it is
J_DbFail ==
    /\ pc = "job_dbfail"
    /\ processing_results' = [processing_results EXCEPT ![task] = DbInitFailed(@)]
    /\ job' = [job EXCEPT ![task] = "done"]
    /\ pc' = "idle"
    /\ caller' = "api"
    /\ UNCHANGED <<dbvars, arg, row, exc, ret, old_log_files, wrvars, task, file, proc>>
    /\ UNCHANGED <<cfgvars, rdvars>>

\* insert_log_file has returned: an issue is added when it returned False, and
\* writer.insert_logs(results, log_file_id=task_id) is called either way
J_IlfDone ==
    /\ pc = "job_ilf_done"
    /\ processing_results' = [processing_results EXCEPT ![task] =
           IF ret.val = "True" THEN @
           ELSE [@ EXCEPT !.issues = Append(@, "Failed to create log file record")]]
    /\ il' = [logs |-> Rows(task, Len(proc.results)), fid |-> task,
              bs |-> DefaultBatchSize, i |-> 0, base |-> Len(access_logs), last |-> NoLast]
    /\ stats' = [rows_attempted |-> Len(proc.results), rows_inserted |-> 0, errors |-> 0]
    /\ pc' = "il_loop"
    /\ UNCHANGED <<dbvars, caller, arg, row, exc, ret, old_log_files, calls>>
    /\ UNCHANGED <<job, task, file, proc>>
    /\ UNCHANGED <<cfgvars, rdvars>>

\* processing_results[task_id].update({"status": "complete", "db_stats": ...,
\* "records_imported": db_stats.get("records_inserted", records_imported)});
\* db_stats has no key "records_inserted"; create_all_indexes() changes no row
J_Update ==
    /\ pc = "job_update"
    /\ processing_results' = [processing_results EXCEPT ![task] =
           [@ EXCEPT !.status = "complete", !.db_stats = stats, !.has_db_stats = TRUE]]
    /\ pc' = "job_cleanup"
    /\ UNCHANGED <<dbvars, caller, arg, row, exc, ret, old_log_files, wrvars>>
    /\ UNCHANGED <<job, task, file, proc>>
    /\ UNCHANGED <<cfgvars, rdvars>>

\* os.unlink(file_path); a failure adds an issue
J_Cleanup ==
    /\ pc = "job_cleanup"
    /\ \E ok \in BOOLEAN :
          /\ processing_results' = [processing_results EXCEPT ![task] =
                 IF ok THEN @
                 ELSE [@ EXCEPT !.issues = Append(@, "Failed to remove temporary file")]]
          /\ proc' = [proc EXCEPT !.removal = IF ok THEN "ok" ELSE "failed"]
    /\ job' = [job EXCEPT ![task] = "done"]
    /\ pc' = "idle"
    /\ caller' = "api"
    /\ UNCHANGED <<dbvars, arg, row, exc, ret, old_log_files, wrvars, task, file>>
    /\ UNCHANGED <<cfgvars, rdvars>>

-----------------------------------------------------------------------------
(* routes/logs.py: GET /task/{task_id}                                      *)

NoSeen == [task |-> "none", found |-> FALSE, rec |-> NoRecord]

\* get_task is a coroutine of the event loop process_log_file runs on, and
\* process_log_file awaits nothing: get_task starts only while no other
\* handler is running
LoopIdle_AnyTime == TRUE
LoopIdle == pc = "idle"

\* task_info = get_task_status(task_id)
GT_Call ==
    /\ LoopIdle
    /\ \E t \in Tasks :
          seen' = [task |-> t, found |-> get_task_status(t) # NoRecord,
                   rec |-> get_task_status(t)]
    /\ pc' = "gt_return"
    /\ UNCHANGED <<dbvars, caller, arg, row, exc, ret, old_log_files, wrvars, jobvars, cfgvars>>

\* HTTP 404 when there is no record, otherwise the record is the response
GT_Return ==
    /\ pc = "gt_return"
    /\ seen' = NoSeen
    /\ pc' = "idle"
    /\ UNCHANGED <<dbvars, caller, arg, row, exc, ret, old_log_files, wrvars, jobvars, cfgvars>>

-----------------------------------------------------------------------------
(* routes/crawler_config.py: the pattern list kept in crawler_patterns.py *)

\* DEFAULT_CRAWLER_PATTERNS, in the order of the list
DEFAULT_CRAWLER_PATTERNS ==
    << <<"GPTBot">>, <<"cohere-ai">>, <<"Cohere-AI">>, <<"Omgili">>, <<"Omgili", "bot">> >>

\* request bodies of POST /crawler-patterns
PatternBodies ==
    { <<>>, << <<"bot">> >>, << <<"Omgili">>, <<"GPTBot">> >> }

\* the category of group_patterns_by_category whose keyword the pattern contains
Category(p) ==
    IF \E k \in DOMAIN p : LowerFragment(p[k]) = "gptbot" THEN "OpenAI"
    ELSE IF \E k \in DOMAIN p : LowerFragment(p[k]) = "cohere-ai" THEN "Cohere"
    ELSE "Others"

\* group_patterns_by_category, flattened as the file lists it: categories in
\* alphabetical order, "Others" last
group_patterns_by_category(patterns) ==
    SelectSeq(patterns, LAMBDA p : Category(p) = "Cohere")
        \o SelectSeq(patterns, LAMBDA p : Category(p) = "OpenAI")
        \o SelectSeq(patterns, LAMBDA p : Category(p) = "Others")

\* POST /crawler-patterns: the list in crawler_patterns.py is rewritten
update_crawler_patterns ==
    /\ \E patterns \in PatternBodies :
          crawler_patterns' = group_patterns_by_category(patterns)
    /\ ret' = [op |-> "update_crawler_patterns", id |-> "none", val |-> "updated"]
    /\ UNCHANGED <<dbvars, pc, caller, arg, row, exc, old_log_files, wrvars, jobvars, agent, rdvars>>

\* POST /crawler-patterns/reset
reset_crawler_patterns ==
    /\ crawler_patterns' = group_patterns_by_category(DEFAULT_CRAWLER_PATTERNS)
    /\ ret' = [op |-> "reset_crawler_patterns", id |-> "none", val |-> "reset"]
    /\ UNCHANGED <<dbvars, pc, caller, arg, row, exc, old_log_files, wrvars, jobvars, agent, rdvars>>

-----------------------------------------------------------------------------
(* LogProcessor(file_path, chunk_size=...).process() called directly, one   *)
(* step for each chunk a worker of the pool processes                       *)

MaxChunkSize == 3      \* largest chunk_size of a direct call

MaxProcessLines == 3   \* longest file of a direct call

ProcessFiles == SeqsUpTo(Lines \cup MoreLines, MaxProcessLines)

\* time.time() - start_time, in seconds
ElapsedTimes == {-1, 0, 2}

\* processor = LogProcessor(file_path, chunk_size=...); processor.process():
\* the one processor object of a behaviour
P_Call ==
    /\ pc = "idle"
    /\ proc = NoProc
    /\ \E f \in ProcessFiles : file' = f
    /\ \E chunk_size \in 1..MaxChunkSize : proc' = [NoProc EXCEPT !.chunk_size = chunk_size]
    /\ pc' = "p_detect"
    /\ caller' = "api"
    /\ ret' = NoRet
    /\ old_log_files' = log_files
    /\ UNCHANGED <<dbvars, arg, row, exc, wrvars, job, task, processing_results, cfgvars, rdvars>>

\* log_format = self.detect_format(); ValueError when it is None
P_Detect ==
    /\ pc = "p_detect"
    /\ LET fmt == detect_log_format(Sample(file))
       IN  IF fmt \in {"None", "raise"}
           THEN /\ proc' = [proc EXCEPT !.log_format = fmt, !.outcome = "raised"]
                /\ pc' = "idle"
           ELSE /\ proc' = [proc EXCEPT !.log_format = fmt]
                /\ pc' = "p_chunk"
    /\ UNCHANGED <<dbvars, caller, arg, row, exc, ret, old_log_files, wrvars>>
    /\ UNCHANGED <<job, task, file, processing_results, cfgvars, rdvars>>

\* chunks = chunk_file(self.file_path, self.chunk_size)
P_Chunk ==
    /\ pc = "p_chunk"
    /\ proc' = [proc EXCEPT !.chunks = chunk_file(file, proc.chunk_size), !.chunked = TRUE]
    /\ pc' = "p_map"
    /\ UNCHANGED <<dbvars, caller, arg, row, exc, ret, old_log_files, wrvars>>
    /\ UNCHANGED <<job, task, file, processing_results, cfgvars, rdvars>>

\* the chunks whose worker has not finished yet
Unfinished == {k \in DOMAIN proc.chunks : \A j \in DOMAIN proc.finished : proc.finished[j] # k}

\* pool.map(process_fn, chunks) returns the workers' lists in the order of
\* chunks, whatever order the workers finished in
MapOrder_AsFinished(n, finished) == finished
MapOrder(n, finished) == [k \in 1..n |-> k]

\* list(itertools.chain.from_iterable(results)) for the lists of the chunks
\* taken in the given order
RECURSIVE chain_from_iterable(_, _, _)
chain_from_iterable(chunks, log_format, order) ==
    IF order = <<>> THEN <<>>
    ELSE process_chunk(chunks[Head(order)], log_format).entries
             \o chain_from_iterable(chunks, log_format, Tail(order))

\* pool.map: the worker of chunk k finishes process_chunk, which used the
\* pattern list its process has; an exception of a worker is re-raised by
\* pool.map
P_WorkerDone(k) ==
    /\ pc = "p_map"
    /\ k \in Unfinished
    /\ LET out == process_chunk(proc.chunks[k], proc.log_format)
       IN  IF out.raised
           THEN /\ proc' = [proc EXCEPT !.workers = @ + 1, !.results = <<>>,
                                        !.finished = Append(@, k),
                                        !.outcome = "raised"]
                /\ pc' = "idle"
           ELSE /\ proc' = [proc EXCEPT !.workers = @ + 1,
                                        !.finished = Append(@, k),
                                        !.used = Append(@, WorkerPatterns)]
                /\ UNCHANGED pc
    /\ UNCHANGED <<dbvars, caller, arg, row, exc, ret, old_log_files, wrvars>>
    /\ UNCHANGED <<job, task, file, processing_results, cfgvars, rdvars>>

\* the workers finish in the order of the chunks: the schedule the runs with
\* pattern rewrites are explored under, the result of pool.map being the same
\* for every schedule (C30)
P_Worker == P_WorkerDone(Len(proc.finished) + 1)

\* the workers finish in any order
P_AnyWorker == \E k \in DOMAIN proc.chunks : P_WorkerDone(k)

\* flat_results of the run whose workers have all finished
FlatResults ==
    chain_from_iterable(proc.chunks, proc.log_format,
                        MapOrder(Len(proc.chunks), proc.finished))

\* flat_results and the statistics are returned
P_Return ==
    /\ pc = "p_map"
    /\ proc.workers = Len(proc.chunks)
    /\ LET flat_results == FlatResults
       IN  \E processing_time \in ElapsedTimes :
              proc' = [proc EXCEPT !.processing_time = processing_time,
                                   !.results = flat_results,
                                   !.stats = ProcessingStats(SumLen(proc.chunks),
                                                             Len(flat_results)),
                                   !.lines_per_second =
                                       LinesPerSecond(SumLen(proc.chunks), processing_time),
                                   !.outcome = "returned"]
    /\ pc' = "idle"
    /\ UNCHANGED <<dbvars, caller, arg, row, exc, ret, old_log_files, wrvars>>
    /\ UNCHANGED <<job, task, file, processing_results, cfgvars, rdvars>>

-----------------------------------------------------------------------------

Init ==
    /\ log_files = <<>>
    /\ access_logs = <<>>
    /\ in_transaction = FALSE
    /\ w_log_files = <<>>
    /\ w_access_logs = <<>>
    /\ pc = "idle"
    /\ caller = "api"
    /\ arg = NoArg
    /\ row = NoRow
    /\ exc = FALSE
    /\ ret = NoRet
    /\ old_log_files = <<>>
    /\ il = NoIl
    /\ stats = NoStats
    /\ calls = 0
    /\ job = [t \in Tasks |-> "new"]
    /\ task = "none"
    /\ file = <<>>
    /\ proc = NoProc
    /\ processing_results = [t \in Tasks |-> NoRecord]
    /\ crawler_patterns = group_patterns_by_category(DEFAULT_CRAWLER_PATTERNS)
    /\ agent = NoAgent
    /\ seen = NoSeen

\* the storage operations on log_files, called in any order
NextFiles ==
    \/ ILF_Call \/ ILF_Enter \/ ILF_Reset \/ ILF_Insert \/ ILF_Exit
    \/ SAL_Call \/ SAL_Enter \/ SAL_Check \/ SAL_Reset \/ SAL_Set \/ SAL_Exit
    \/ DEL_Call \/ DEL_Enter \/ DEL_Check \/ DEL_Logs \/ DEL_File \/ DEL_Exit
    \/ GAL_Call \/ GAL_Enter \/ GAL_Select \/ GAL_Exit

SpecFiles == Init /\ [][NextFiles]_vars

\* direct calls of LogWriter.insert_logs
NextWriter == IL_Call \/ IL_Batch \/ IL_Return

SpecWriter == Init /\ [][NextWriter]_vars

\* direct calls of the classifiers of crawler_detection.py
NextAgents == A_Classify

SpecAgents == Init /\ [][NextAgents]_vars

\* direct calls of LogProcessor.process, with the pattern file rewritten at
\* any moment
NextProcess ==
    \/ P_Call \/ P_Detect \/ P_Chunk \/ P_Worker \/ P_Return
    \/ update_crawler_patterns \/ reset_crawler_patterns

SpecProcess == Init /\ [][NextProcess]_vars

\* direct calls of LogProcessor.process with the workers of the pool finishing
\* in any order
NextPool == P_Call \/ P_Detect \/ P_Chunk \/ P_AnyWorker \/ P_Return

SpecPool == Init /\ [][NextPool]_vars

\* uploads and the background jobs they start
Next ==
    \/ J_Upload \/ J_Begin \/ J_Detect \/ J_Chunk \/ J_Map \/ J_Store \/ J_InitDb
    \/ J_DbFail
    \/ ILF_Enter \/ ILF_Reset \/ ILF_Insert \/ ILF_Exit
    \/ J_IlfDone \/ IL_Batch \/ IL_Return \/ J_Update \/ J_Cleanup

Spec == Init /\ [][Next]_vars

\* the jobs with status requests arriving at any time
NextStatus == Next \/ GT_Call \/ GT_Return

SpecStatus == Init /\ [][NextStatus]_vars

-----------------------------------------------------------------------------
(* Claims about the active flag of log_files (checked under SpecFiles) *)

ExactlyActive(tbl, id) == NumActive(tbl) = 1 /\ ActiveIds(tbl) = {id}

ILF_ReturnedTrueActive ==
    /\ ret.op = "insert_log_file"
    /\ ret.val = "True"
    /\ arg.active

\* C2: whenever insert_log_file(id, name, set_as_active=True) returns True,
\* whatever log_files held before (a record with the same id included), exactly
\* one record has in_use = 1 and it is the record with the given id.
C2_InsertActiveIsExclusive ==
    ILF_ReturnedTrueActive => ExactlyActive(log_files, ret.id)

\* C2, second half (holds): while insert_log_file runs, the committed table
\* changes only in the step that commits the whole transaction.
C2_CommitsOnce ==
    [][(pc \in {"ilf_enter", "ilf_reset", "ilf_insert"}) => log_files' = log_files]_vars

\* C3: after set_active_log_file(X) has succeeded for a log file X present in
\* log_files, exactly one record has in_use = 1 and that record is X.
C3_SetActiveIsExclusive ==
    (ret.op = "set_active_log_file" /\ ret.val = "success")
        => ExactlyActive(log_files, ret.id)

\* C3 witness: set_active_log_file(X) succeeded while another record was active
C3_Witness ==
    /\ ret.op = "set_active_log_file"
    /\ ret.val = "success"
    /\ NumActive(old_log_files) = 1
    /\ ret.id \notin ActiveIds(old_log_files)

\* C4: in every committed state reachable from the empty table by
\* insert_log_file, set_active_log_file, delete_log_file_data and
\* get_active_log_file, at most one log_files record has in_use = 1.
C4_AtMostOneActive == NumActive(log_files) <= 1

\* C4 witness: an activating insert has committed into a table that already
\* held an active record, and three records are stored
C4_Witness ==
    /\ ILF_ReturnedTrueActive
    /\ NumActive(old_log_files) = 1
    /\ ret.id \notin ActiveIds(old_log_files)
    /\ Len(log_files) = 3
    /\ NumActive(log_files) = 1

\* C24: when no log_files record is active and at least one record exists,
\* get_active_log_file sets the most recently uploaded record active and
\* returns it; afterwards exactly that record has in_use = 1.
C24_GetActivePromotesMostRecent ==
    (ret.op = "get_active_log_file" /\ old_log_files # <<>> /\ NumActive(old_log_files) = 0)
        => /\ ret.val = "row"
           /\ ret.id = old_log_files[Len(old_log_files)].id
           /\ ExactlyActive(log_files, ret.id)

-----------------------------------------------------------------------------
(* Claims about LogWriter.insert_logs (checked under SpecWriter) *)

\* C1: when insert_logs has returned, whatever the list, the batch size and
\* the pattern of bulk and row failures, rows_attempted = rows_inserted + errors.
C1_AttemptedIsInsertedPlusErrors ==
    (ret.op = "insert_logs")
        => stats.rows_attempted = stats.rows_inserted + stats.errors

-----------------------------------------------------------------------------
(* Claims about process_log_file and processing_results (checked under Spec) *)

StatusChanges ==
    { <<"none", "processing_complete">>,
      <<"processing_complete", "complete">>,
      <<"processing_complete", "db_init_failed">>,
      <<"none", "error">>,
      <<"processing_complete", "error">> }

\* C5: the status stored for a job only changes along (nothing stored yet,
\* the pending stage) -> processing_complete -> complete, (pending) ->
\* processing_complete -> db_init_failed, or to error; a status complete,
\* db_init_failed or error is never changed again.
C5_StatusTransitions ==
    [][\A t \in Tasks :
          \/ processing_results'[t].status = processing_results[t].status
          \/ <<processing_results[t].status, processing_results'[t].status>> \in StatusChanges]_vars

\* C5 witness: one job has gone through processing_complete to complete and
\* the other one has ended with db_init_failed
C5_Witness ==
    /\ processing_results["t1"].status = "complete"
    /\ processing_results["t2"].status = "db_init_failed"

\* C6: whenever a job's status is complete, insert_log_file returned True for
\* that job (no "Failed to create log file record" issue was added) and
\* insert_logs has returned (db_stats is stored).
C6_CompleteOnlyAfterWriterSucceeded ==
    \A t \in Tasks :
        processing_results[t].status = "complete"
            => /\ ~HasIssue(processing_results[t], "Failed to create log file record")
               /\ processing_results[t].has_db_stats

\* C7: from the moment process_log_file runs for a task until it ends,
\* get_task_status returns a record, with status pending while the file is
\* being parsed.
C7_RecordFromJobStart ==
    \A t \in Tasks :
        job[t] = "running"
            => /\ get_task_status(t).status # "none"
               /\ (pc \in {"job_detect", "job_chunk", "job_map", "job_store"}
                      => get_task_status(t).status = "pending")

\* C8: a record with status error carries a non-empty error message, and the
\* statistics a job's record held before the failing step are still in its
\* error record.
C8_ErrorCarriesMessageAndStats ==
    [][\A t \in Tasks :
          processing_results'[t].status = "error"
              => /\ processing_results'[t].error # ""
                 /\ HasIssue(processing_results'[t], processing_results'[t].error)
                 /\ (processing_results[t].stats.present
                        => processing_results'[t].stats = processing_results[t].stats)]_vars

\* C8 witness: a job has ended with status error and its message
C8_Witness ==
    \E t \in Tasks :
        /\ job[t] = "done"
        /\ processing_results[t].status = "error"
        /\ processing_results[t].error = KeyErrorText

\* a sampled line that matches no format: no pattern matches it, or its
\* timestamp does not parse
Unrecognized(l) == l.shape = "bad" \/ ~l.timeok

SampleUnrecognized == \A k \in DOMAIN Sample(file) : Unrecognized(Sample(file)[k])

JobEnded == task \in Tasks /\ job[task] = "done"

NothingStoredFor(t) ==
    /\ ~HasId(log_files, t)
    /\ \A k \in DOMAIN access_logs : access_logs[k].fid # t

\* C9: when none of the sampled lines matches any format, detection returns
\* None and the job ends with status error and a descriptive message, without
\* chunk_file being called, without a worker being started and without any
\* storage write.
C9_UndetectedFormatEndsInError ==
    (JobEnded /\ SampleUnrecognized)
        => /\ proc.log_format = "None"
           /\ processing_results[task].status = "error"
           /\ processing_results[task].error = ValueErrorText
           /\ ~proc.chunked
           /\ proc.workers = 0
           /\ NothingStoredFor(task)
           /\ log_files = old_log_files

\* C9 witness: a job whose file holds only unrecognized lines has ended
C9_Witness ==
    /\ JobEnded
    /\ Len(file) = MaxLines
    /\ SampleUnrecognized
    /\ processing_results[task].status = "error"

\* C10: processing an empty file yields statistics with total_lines = 0 and
\* match_percentage = 0 and raises no error.
C10_EmptyFileYieldsZeroStats ==
    (JobEnded /\ file = <<>>)
        => /\ processing_results[task].status # "error"
           /\ processing_results[task].stats.present
           /\ processing_results[task].stats.total_lines = 0
           /\ processing_results[task].stats.mp_num = 0

-----------------------------------------------------------------------------
(* Claims about LogProcessor.process (checked under SpecProcess) *)

Returned == pc = "idle" /\ proc.outcome = "returned"
Ended    == pc = "idle" /\ proc.outcome \in {"returned", "raised"}

\* the lines of the file that are well formed and carry a known crawler pattern
CrawlerLines ==
    SelectSeq(file, LAMBDA l : ~(l.shape = "bad" \/ ~l.timeok) /\ is_llm_crawler(l.ua))

ResultLines == [k \in DOMAIN proc.results |-> proc.results[k].line]

StandardFile ==
    /\ \A k \in DOMAIN file : file[k].shape \in {"std", "bad"}
    /\ \E k \in DOMAIN file : file[k].shape = "std" /\ file[k].timeok

\* C11: for a file of standard-format lines (no response time after the user
\* agent), browser lines and malformed lines, process() returns with
\* total_lines = the number of lines and matches = the number of well-formed
\* lines with a known crawler pattern, each entry named after its pattern.
C11_StandardFormatIsParsed ==
    (Ended /\ StandardFile)
        => /\ proc.outcome = "returned"
           /\ proc.stats.total_lines = Len(file)
           /\ proc.stats.llm_matches = Len(CrawlerLines)
           /\ \A k \in DOMAIN proc.results : proc.results[k].crawler_name.kind = "pattern"

\* C12: a line that matches no pattern of the detected format, or whose
\* timestamp does not parse, is parsed to None; process_chunk drops it without
\* raising, still parses the other lines, and the line counts in total_lines
\* but never in llm_matches.
C12_UnparsedLinesAreDropped ==
    Returned
        => /\ \A k \in DOMAIN file :
                 Unrecognized(file[k])
                     => /\ parse_apache_line(file[k]) = ParsedNone
                        /\ parse_nginx_line(file[k]) = ParsedNone
           /\ proc.stats.total_lines = Len(file)
           /\ ResultLines = CrawlerLines
           /\ proc.stats.llm_matches = Len(CrawlerLines)

\* C12 witness: process() has returned for a file whose first line is
\* unparsable and whose last line is an entry of the result
C12_Witness ==
    /\ Returned
    /\ Len(file) >= 2
    /\ Unrecognized(file[1])
    /\ \E k \in 2..Len(file) : Unrecognized(file[k]) /\ ~file[k].timeok
    /\ proc.results # <<>>
    /\ proc.results[Len(proc.results)].line = file[Len(file)]

RECURSIVE Flatten(_)
Flatten(chunks) == IF chunks = <<>> THEN <<>> ELSE Head(chunks) \o Flatten(Tail(chunks))

\* C14: whenever process() returns, total_lines is the number of lines of the
\* file, the chunks are its consecutive slices of exactly chunk_size lines (the
\* last one possibly shorter), llm_matches is the number of returned entries
\* and at most total_lines, match_percentage is llm_matches / total_lines * 100
\* (0 for no lines) and lines_per_second is 0 when the elapsed time is <= 0.
C14_StatisticsAreConsistent ==
    Returned
        => /\ proc.stats.total_lines = Len(file)
           /\ Flatten(proc.chunks) = file
           /\ \A k \in DOMAIN proc.chunks :
                 IF k < Len(proc.chunks)
                 THEN Len(proc.chunks[k]) = proc.chunk_size
                 ELSE Len(proc.chunks[k]) \in 1..proc.chunk_size
           /\ proc.stats.llm_matches = Len(proc.results)
           /\ proc.stats.llm_matches <= proc.stats.total_lines
           /\ IF proc.stats.total_lines = 0
              THEN proc.stats.mp_num = 0
              ELSE /\ proc.stats.mp_num = proc.stats.llm_matches * 100
                   /\ proc.stats.mp_den = proc.stats.total_lines
           /\ IF proc.processing_time <= 0
              THEN proc.lines_per_second.num = 0
              ELSE /\ proc.lines_per_second.num = proc.stats.total_lines
                   /\ proc.lines_per_second.den = proc.processing_time

\* C14 witness: process() has returned for three lines in chunks of two, with
\* a match and an elapsed time of zero
C14_Witness ==
    /\ Returned
    /\ Len(file) = 3
    /\ proc.chunk_size = 2
    /\ Len(proc.chunks) = 2
    /\ Len(proc.results) = 1
    /\ proc.processing_time = 0

\* C18: a rewrite of the pattern list (update_crawler_patterns or
\* reset_crawler_patterns) at any moment of a run is not observed by it: every
\* chunk of the run is filtered and named against the same pattern list.
C18_PatternUpdateNotObserved ==
    \A j \in DOMAIN proc.used : \A k \in DOMAIN proc.used : proc.used[j] = proc.used[k]

\* C18 witness: the pattern file was rewritten while the second chunk of a
\* run was still to be processed, and the run has returned
C18_Witness ==
    /\ Returned
    /\ Len(proc.used) >= 2
    /\ ret.op = "update_crawler_patterns"
    /\ crawler_patterns = << <<"bot">> >>
    /\ proc.results # <<>>

\* a user agent without a known pattern that CrawlerDatabase.is_crawler accepts
\* for its generic token
GenericOnly(ua) ==
    /\ \A k \in DOMAIN AllPatterns : ~Contains(Lower(ua), Lower(AllPatterns[k]))
    /\ is_crawler(ua)

\* C19: a parsed line whose user agent has no known crawler pattern but a
\* generic token (bot, crawler, spider, ai) and no browser token is kept in
\* the matched entries, with a null crawler_name.
C19_GenericCrawlerIsKept ==
    Returned
        => \A k \in DOMAIN file :
              (~Unrecognized(file[k]) /\ GenericOnly(file[k].ua))
                  => \E j \in DOMAIN proc.results :
                        /\ proc.results[j].line = file[k]
                        /\ proc.results[j].crawler_name = NoName

\* the file holds lines of the given shapes only, one at least, all parsable
FileOf(shapes) ==
    /\ file # <<>>
    /\ \A k \in DOMAIN file : file[k].shape \in shapes /\ file[k].timeok

\* C22: for a file of lines in the Nginx-with-response-time format (decimal
\* seconds after the user agent, optionally a request id) detection followed by
\* process_chunk yields entries whose response_time_ms is the seconds in whole
\* milliseconds (0.123 -> 123); for a file in the Apache-with-response-time
\* format it is floor(microseconds / 1000) (125000 -> 125).
C22_ResponseTimeInMilliseconds ==
    /\ (Returned /\ FileOf({"ntime", "nid"}))
           => \A k \in DOMAIN proc.results :
                 proc.results[k].response_time_ms
                     = proc.results[k].line.rt.whole * 1000 + proc.results[k].line.rt.milli
    /\ (Returned /\ FileOf({"atime"}))
           => \A k \in DOMAIN proc.results :
                 proc.results[k].response_time_ms = proc.results[k].line.rt.whole \div 1000

\* a run that began after the last rewrite of the pattern file had returned,
\* the file then holding a list other than the one the application ships
RanAfterUpdate ==
    /\ Returned
    /\ ret = NoRet
    /\ crawler_patterns # group_patterns_by_category(DEFAULT_CRAWLER_PATTERNS)

\* C29: after update_crawler_patterns(P) has returned, every later run
\* classifies user agents with exactly the patterns of P: each chunk of a run
\* that starts after the update is processed with the list the update wrote.
C29_LaterJobsUseUpdatedPatterns ==
    RanAfterUpdate => \A k \in DOMAIN proc.used : proc.used[k] = crawler_patterns

\* C30: process() returns the matched entries in source line order, whatever
\* order the workers finish their chunks in: the result is the list one
\* sequential pass over the whole file yields.
C30_ResultsInSourceOrder ==
    Returned => proc.results = process_chunk(file, proc.log_format).entries

\* C30 witness: the worker of the second chunk finished before the worker of
\* the first, both chunks yielded an entry, the entries differ, and the run
\* has returned
C30_Witness ==
    /\ Returned
    /\ Len(proc.finished) >= 2
    /\ proc.finished[1] = 2
    /\ proc.finished[2] = 1
    /\ process_chunk(proc.chunks[1], proc.log_format).entries # <<>>
    /\ process_chunk(proc.chunks[2], proc.log_format).entries # <<>>
    /\ proc.results[1] # proc.results[Len(proc.results)]

-----------------------------------------------------------------------------
(* Claims about the jobs (checked under Spec) *)

\* a worker of the running job has raised while processing its chunk
WorkerRaised ==
    /\ task \in Tasks
    /\ proc.workers > 0
    /\ \E k \in DOMAIN proc.chunks : process_chunk(proc.chunks[k], proc.log_format).raised

\* C13: when a worker raises while processing a chunk, the job fails as a
\* whole: its record is the error record (no statistics, no matched entries,
\* never processing_complete) and nothing of the job is written to storage.
C13_WorkerFailureFailsJob ==
    WorkerRaised
        => /\ job[task] = "done"
           /\ processing_results[task] = ErrorRecord(KeyErrorText)
           /\ ~processing_results[task].stats.present
           /\ processing_results[task].matched_entries = 0
           /\ NothingStoredFor(task)

\* C13 witness: the second job's worker raised on the second line of its
\* file, after the first job had stored its entries
C13_Witness ==
    /\ WorkerRaised
    /\ task = "t2"
    /\ Len(file) = 2
    /\ processing_results["t2"].status = "error"
    /\ processing_results["t1"].status = "complete"

\* C17: when init_database fails, the status becomes db_init_failed, the
\* parsed results of the record (stats, matched_entries, records_imported) stay
\* as they were, the issue "Database initialization failed" is added before
\* the job returns, and neither insert_log_file nor insert_logs is called.
C17_DbInitFailedKeepsResults ==
    [][\A t \in Tasks :
          /\ (processing_results'[t].status = "db_init_failed"
                 /\ processing_results[t].status # "db_init_failed")
                 => processing_results[t].status = "processing_complete"
          /\ (processing_results'[t].status = "db_init_failed")
                 => /\ processing_results'[t].stats = processing_results[t].stats
                    /\ processing_results'[t].stats.present
                    /\ processing_results'[t].matched_entries = processing_results[t].matched_entries
                    /\ processing_results'[t].records_imported = processing_results[t].records_imported
                    /\ ~processing_results'[t].has_db_stats
          /\ (processing_results'[t].status = "db_init_failed" /\ job[t] = "running")
                 => UNCHANGED <<dbvars, wrvars>>
          /\ (processing_results[t].status = "db_init_failed" /\ job[t] = "running"
                 /\ pc' # pc)
                 => /\ HasIssue(processing_results'[t], "Database initialization failed")
                    /\ pc' = "idle"
                    /\ job'[t] = "done"]_vars

\* C17 witness: a job with two matched entries has ended with db_init_failed
\* and nothing of it is stored
C17_Witness ==
    \E t \in Tasks :
        /\ job[t] = "done"
        /\ processing_results[t].status = "db_init_failed"
        /\ HasIssue(processing_results[t], "Database initialization failed")
        /\ processing_results[t].matched_entries = 2
        /\ NothingStoredFor(t)

\* the job that ran last has returned, and process() had returned its results
ParsedJobEnded ==
    /\ JobEnded
    /\ processing_results[task].stats.present

\* C23: every job submitted with save_to_db = True whose parsing succeeds
\* leaves processing_complete: when process_log_file has returned (after
\* which nothing writes its record again) the status is complete,
\* db_init_failed or error, also for a file without any crawler line.
C23_SavedJobLeavesProcessingComplete ==
    (ParsedJobEnded /\ proc.save_to_db)
        => processing_results[task].status \in {"complete", "db_init_failed", "error"}

\* C26: in every record with status complete, records_imported is the number
\* of rows the writer inserted for the job (db_stats.rows_inserted), also
\* when some rows failed to insert.
C26_RecordsImportedIsRowsInserted ==
    \A t \in Tasks :
        processing_results[t].status = "complete"
            => processing_results[t].records_imported
                   = processing_results[t].db_stats.rows_inserted

\* C27: every stored access_logs row has a log_file_id for which a log_files
\* record exists; a job writes no entries when creating its log-file record
\* failed.
C27_EveryEntryHasItsLogFile ==
    \A k \in DOMAIN access_logs :
        \E j \in DOMAIN log_files : log_files[j].id = access_logs[k].fid

\* C28: for every job whose parsing succeeded, removal of the temporary input
\* file has been attempted by the time process_log_file returns; a failed
\* removal leaves the status as it was and adds an issue to the record.
C28_TempFileRemovalAttempted ==
    /\ ParsedJobEnded => proc.removal # "none"
    /\ (ParsedJobEnded /\ proc.removal = "failed")
           => /\ HasIssue(processing_results[task], "Failed to remove temporary file")
              /\ processing_results[task].status \in {"processing_complete", "complete"}

-----------------------------------------------------------------------------
(* Claims about status requests (checked under SpecStatus) *)

\* C21: a get_task_status(task_id) call made at any moment the event loop
\* allows never returns a partially updated record: never status complete
\* without db_stats and db_insertion_time, never status db_init_failed without
\* the issue "Database initialization failed", never a record without a status.
C21_StatusReadsAreConsistent ==
    seen.found
        => /\ seen.rec.status \in {"processing_complete", "complete", "db_init_failed", "error"}
           /\ (seen.rec.status = "complete") => seen.rec.has_db_stats
           /\ (seen.rec.status = "db_init_failed")
                  => HasIssue(seen.rec, "Database initialization failed")

\* C21 witness: the record of a job that ended with db_init_failed is read
\* while the other task's job is queued behind it
C21_Witness ==
    /\ seen.found
    /\ seen.task = "t1"
    /\ seen.rec.status = "db_init_failed"
    /\ job["t2"] = "queued"

-----------------------------------------------------------------------------
(* Claims about the batches of LogWriter (checked under SpecWriter) *)

\* C15: when the bulk insert of a batch has failed, every row whose INSERT is
\* executed individually runs in a transaction of its own.
C15_FallbackRowsInOwnTransactions ==
    il.last.bulk_failed => il.last.txns = il.last.tried

IsPrefix(a, b) == Len(a) <= Len(b) /\ SubSeq(b, 1, Len(a)) = a

StoredByCall == SubSeq(access_logs, il.base + 1, Len(access_logs))

\* C25: after any run of insert_logs, with any combination of bulk-insert
\* failure (a failure after part of the batch was executed included) and
\* fallback, no entry of the input list is stored more than once: the rows a
\* failed bulk attempt executed are rolled back before the fallback inserts them.
C25_NoEntryStoredTwice ==
    /\ \A j \in DOMAIN StoredByCall : \A k \in DOMAIN StoredByCall :
           j # k => StoredByCall[j] # StoredByCall[k]
    /\ \A j \in DOMAIN StoredByCall : \E k \in DOMAIN il.logs : il.logs[k] = StoredByCall[j]
    /\ w_access_logs = access_logs

\* C25 witness: executemany raised at the second row of a batch, after the
\* first row had been executed, and the fallback has stored both rows
C25_Witness ==
    /\ ret.op = "insert_logs"
    /\ il.last.bulk_failed
    /\ il.last.executed = 1
    /\ il.last.tried = 2
    /\ Len(StoredByCall) = 2
    /\ stats.rows_inserted = 2

-----------------------------------------------------------------------------
(* Claims about the classifiers (checked under SpecAgents) *)

KnownTo(patterns, ua, name) ==
    /\ (\E k \in DOMAIN patterns : Lower(patterns[k]) = Lower(ua))
           => (name.kind = "pattern" /\ Lower(name.name) = Lower(ua))
    /\ (\E k \in DOMAIN patterns : Contains(Lower(ua), Lower(patterns[k])))
           => (name.kind = "pattern" /\ \E k \in DOMAIN patterns : patterns[k] = name.name)

\* C20: for a user agent equal, ignoring case, to a known pattern,
\* extract_crawler_name returns a pattern equal to it ignoring case, never a
\* shorter pattern it contains and never a heuristic or domain-derived name;
\* for a user agent that contains a known pattern it returns a known pattern.
C20_ExactBeatsSubstringBeatsHeuristic ==
    (agent.ua # <<>>)
        => /\ KnownTo(LLM_CRAWLER_PATTERNS, agent.ua, agent.name)
           /\ KnownTo(AllPatterns, agent.ua, agent.db_name)

\* C20 witness: "omgilibot", which equals the pattern "Omgilibot" ignoring case
\* and contains the earlier pattern "Omgili", has been named "Omgilibot"
C20_Witness ==
    /\ agent.ua = <<"omgili", "bot">>
    /\ agent.name = PatternName(<<"Omgili", "bot">>)
    /\ agent.db_name = PatternName(<<"Omgili", "bot">>)

====
